---------------------------- MODULE Spec2Model ----------------------------
(***************************************************************************)
(* A model of the fubble billing engine (src/fubble): the invoice          *)
(* lifecycle of InvoiceManager, the credit ledger of CreditManager and the *)
(* invoice assembly pipeline of BillingEngine, run by request handlers     *)
(* that each own a SQLAlchemy session on one shared database.              *)
(*                                                                         *)
(* Money is counted in whole currency units and time in whole seconds.     *)
(***************************************************************************)
EXTENDS Integers, Sequences, FiniteSets, TLC

(***************************************************************************)
(* Bounds of the model.                                                    *)
(***************************************************************************)
MaxTime == 2
MaxInvoices == 2
MaxItems == 2
DayLen == 2

(***************************************************************************)
(* Program constants.                                                      *)
(***************************************************************************)
NULL == 0

VARIABLES
    backend,       \* the database behind DATABASE_URL
    catalog,       \* plan components, commitment tiers and usage events stored
    now,           \* datetime.utcnow(), in seconds
    invoices,      \* committed rows of table invoices, with their invoice_items
    balances,      \* committed rows of table credit_balances (index = id)
    transactions,  \* committed rows of table credit_transactions
    period_invoice,\* billing_periods.invoice_id, per billing period
    pc,            \* where each request handler stands
    sess,          \* the pending (uncommitted) state of each handler's session
    dbLock,        \* the handler holding the database write lock (sqlite)
    last,          \* the outcome of the last completed call
    subscription_table,   \* committed rows of table subscriptions (index = id)
    billing_period_table, \* committed rows of table billing_periods (index = id)
    usage_event_table,    \* rows of table usage_events written by the trackers
    eval           \* the arguments and the result of a pricing computation

\* the tables of the subscription registry and of event ingestion
registry == <<subscription_table, billing_period_table, usage_event_table>>

vars == <<backend, catalog, now, invoices, balances, transactions,
          period_invoice, pc, sess, dbLock, last, registry, eval>>

(***************************************************************************)
(* Arithmetic helpers.                                                     *)
(***************************************************************************)
Min(a, b) == IF a <= b THEN a ELSE b

Max(a, b) == IF a >= b THEN a ELSE b

RECURSIVE SumAmounts(_)
SumAmounts(s) == IF s = <<>> THEN 0 ELSE Head(s).amount + SumAmounts(Tail(s))

RECURSIVE SetMax(_)
SetMax(S) ==
    IF S = {} THEN 0
    ELSE LET x == CHOOSE y \in S : TRUE IN Max(x, SetMax(S \ {x}))

Has(d, k) == k \in DOMAIN d

Get(d, k, default) == IF k \in DOMAIN d THEN d[k] ELSE default

(***************************************************************************)
(* BillingEngine.calculate_charge_for_component.  pricing_details is a     *)
(* record; reading a key it lacks raises KeyError (err = TRUE).  The       *)
(* result is (charge, unit_price, description): unit_price is kept as the  *)
(* fraction n/d and the description by its leading words.                  *)
(***************************************************************************)
Charge(c, n, d, text) == [err |-> FALSE, charge |-> c, unit_n |-> n, unit_d |-> d, description |-> text]

KeyError == [err |-> TRUE, charge |-> 0, unit_n |-> 0, unit_d |-> 1, description |-> "KeyError"]

\* the tier loop that never lowers remaining_usage
RECURSIVE TieredLoopWhole(_, _, _, _)
TieredLoopWhole(tiers, usage_quantity, remaining_usage, total_charge) ==
    IF tiers = <<>> THEN total_charge
    ELSE LET tier == Head(tiers)
             tier_start == Get(tier, "start", 0)
             tier_end == Get(tier, "end", NULL)
             tier_usage == IF tier_end = NULL THEN remaining_usage
                           ELSE Min(remaining_usage, tier_end - tier_start)
         IN  IF tier_end # NULL /\ tier_start > usage_quantity
             THEN TieredLoopWhole(Tail(tiers), usage_quantity, remaining_usage, total_charge)
             ELSE TieredLoopWhole(Tail(tiers), usage_quantity, remaining_usage,
                                  total_charge + tier_usage * tier.price)

RECURSIVE TieredLoop(_, _, _, _)
TieredLoop(tiers, usage_quantity, remaining_usage, total_charge) ==
    IF tiers = <<>> THEN total_charge
    ELSE LET tier == Head(tiers)
             tier_start == Get(tier, "start", 0)
             tier_end == Get(tier, "end", NULL)
             tier_usage == IF tier_end = NULL THEN remaining_usage
                           ELSE Min(remaining_usage, tier_end - tier_start)
         IN  IF tier_end # NULL /\ tier_start > usage_quantity
             THEN TieredLoop(Tail(tiers), usage_quantity, remaining_usage, total_charge)
             ELSE IF remaining_usage - tier_usage <= 0
                  THEN total_charge + tier_usage * tier.price
                  ELSE TieredLoop(Tail(tiers), usage_quantity,
                                  remaining_usage - tier_usage,
                                  total_charge + tier_usage * tier.price)

RECURSIVE AppliedTier(_, _, _)
AppliedTier(tiers, i, usage_quantity) ==
    IF i = 0 THEN tiers[1]
    ELSE IF usage_quantity >= Get(tiers[i], "start", 0) THEN tiers[i]
    ELSE AppliedTier(tiers, i - 1, usage_quantity)

RECURSIVE ThresholdLoop(_, _)
ThresholdLoop(thresholds, usage_quantity) ==
    IF thresholds = <<>> THEN 0
    ELSE (IF usage_quantity >= Head(thresholds).threshold THEN Head(thresholds).price ELSE 0)
         + ThresholdLoop(Tail(thresholds), usage_quantity)

CeilDiv(a, b) == (a + b - 1) \div b

calculate_charge_for_component(component, q) ==
    LET t == component.pricing_type
        pd == component.pricing_details
    IN  CASE t = "flat" ->
                IF ~Has(pd, "amount") THEN KeyError
                ELSE Charge(pd.amount, pd.amount, 1, "Flat fee")
          [] t = "tiered" ->
                IF ~Has(pd, "tiers") \/ \E i \in DOMAIN Get(pd, "tiers", <<>>) : ~Has(pd.tiers[i], "price")
                THEN KeyError
                ELSE LET total == TieredLoop(pd.tiers, q, q, 0)
                     IN  Charge(total, IF q > 0 THEN total ELSE 0, IF q > 0 THEN q ELSE 1,
                                "Tiered pricing")
          [] t \in {"volume", "graduated"} ->
                IF ~Has(pd, "tiers") \/ Get(pd, "tiers", <<>>) = <<>>
                   \/ \E i \in DOMAIN Get(pd, "tiers", <<>>) : ~Has(pd.tiers[i], "price")
                THEN KeyError
                ELSE LET price == AppliedTier(pd.tiers, Len(pd.tiers), q).price
                     IN  Charge(q * price, price, 1,
                                IF t = "volume" THEN "Volume pricing" ELSE "Graduated pricing")
          [] t = "package" ->
                IF ~Has(pd, "package_size") \/ ~Has(pd, "package_price") THEN KeyError
                ELSE LET total == CeilDiv(q, pd.package_size) * pd.package_price
                     IN  Charge(total, IF q > 0 THEN total ELSE 0, IF q > 0 THEN q ELSE 1,
                                "Package pricing")
          [] t = "threshold" ->
                IF ~Has(pd, "thresholds") THEN KeyError
                ELSE LET total == ThresholdLoop(pd.thresholds, q)
                     IN  Charge(total, IF q > 0 THEN total ELSE 0, IF q > 0 THEN q ELSE 1,
                                "Threshold pricing")
          [] t = "subscription" ->
                IF ~Has(pd, "amount") THEN KeyError
                ELSE Charge(pd.amount, pd.amount, 1, "Subscription fee")
          [] t = "usage_based_subscription" ->
                LET base_fee == Get(pd, "base_fee", 0)
                    total == base_fee + q * Get(pd, "usage_price", 0)
                IN  Charge(total, IF q > 0 THEN total ELSE base_fee, IF q > 0 THEN q ELSE 1,
                           "Usage-based subscription")
          [] t = "time_based" ->
                Charge(q * Get(pd, "rate_per_unit", 0), Get(pd, "rate_per_unit", 0), 1,
                       "Time-based pricing")
          [] t \in {"dimension_based", "dynamic"} ->
                Charge(q * Get(pd, "base_rate", 0), Get(pd, "base_rate", 0), 1,
                       IF t = "dynamic" THEN "Dynamic pricing" ELSE "Dimension-based pricing")
          [] OTHER -> Charge(0, 0, 1, "Unknown pricing type")

(***************************************************************************)
(* Stored data the handlers below only read.  Times are seconds 1, 2, ...; *)
(* NULL stands for a column left unset.                                    *)
(***************************************************************************)
Sessions == {1, 2}

Customers == {1}

CustomerIds == {1, 2}

\* table subscriptions: one ongoing subscription of customer 1
Subscriptions == << [customer_id |-> 1, plan_id |-> 1, start_date |-> 1, end_date |-> NULL] >>

\* table billing_periods: two adjacent periods of subscription 1
BillingPeriods ==
    << [subscription_id |-> 1, start_date |-> 1, end_date |-> 2],
       [subscription_id |-> 1, start_date |-> 2, end_date |-> 3] >>

\* table metrics
Metrics == << [name |-> "api_calls"], [name |-> "storage_gb"] >>

Events ==
    { [customer_id |-> 1, metric_name |-> "api_calls", quantity |-> 3, event_time |-> 1],
      [customer_id |-> 1, metric_name |-> "api_calls", quantity |-> 2, event_time |-> 2] }

Component(metric_name, metric_id, pricing_type, pricing_details) ==
    [metric_name |-> metric_name, metric_id |-> metric_id,
     pricing_type |-> pricing_type, pricing_details |-> pricing_details]

\* Plans as POST /plans stores them (PlanManager.create_plan checks no
\* pricing_details): a fee and a usage rate; a tiered rate under a commitment;
\* a flat component whose details lack "amount"; a flat discount.
\* a flat base fee and a usage component priced per unit
StandardCatalog ==
    [components |-> << Component("base_fee", NULL, "flat", [amount |-> 4]),
                       Component("api_calls", NULL, "time_based", [rate_per_unit |-> 1]) >>,
     commitment_tiers |-> <<>>, events |-> Events]

\* a tiered usage component bound to its metric, under a minimum commitment
CommitmentCatalog ==
    [components |-> << Component("api_calls", 1, "tiered",
                           [tiers |-> << [start |-> 0, end |-> 2, price |-> 2],
                                         [start |-> 2, price |-> 1] >>]) >>,
     commitment_tiers |-> << [subscription_id |-> 1, metric_id |-> 1, committed_amount |-> 4,
                              rate |-> 2, overage_rate |-> NULL,
                              start_date |-> 1, end_date |-> NULL] >>,
     events |-> Events]

\* a flat component stored without its "amount" (create_plan stores
\* pricing_details as given)
MalformedCatalog ==
    [components |-> << Component("base_fee", NULL, "flat", [unit |-> "month"]) >>,
     commitment_tiers |-> <<>>, events |-> Events]

\* a flat component with a negative amount, and no usage in the period
DiscountCatalog ==
    [components |-> << Component("discount", NULL, "flat", [amount |-> 0 - 2]),
                       Component("api_calls", NULL, "time_based", [rate_per_unit |-> 1]) >>,
     commitment_tiers |-> <<>>, events |-> {}]

\* the same plan as create_plan stores it: its component names the metric
\* api_calls and has no metric_id
UnboundCatalog ==
    [components |-> << Component("api_calls", NULL, "tiered",
                           [tiers |-> << [start |-> 0, end |-> 2, price |-> 2],
                                         [start |-> 2, price |-> 1] >>]) >>,
     commitment_tiers |-> CommitmentCatalog.commitment_tiers,
     events |-> Events]

Catalogs == {StandardCatalog, CommitmentCatalog, MalformedCatalog, DiscountCatalog,
             UnboundCatalog}

Balance(amount, expires_at) ==
    [customer_id |-> 1, amount |-> amount, remaining_amount |-> amount,
     status |-> "active", expires_at |-> expires_at]

\* Rows of credit_balances as the tests build them (a fresh balance has
\* remaining_amount = amount and status active).
BalanceFixtures ==
    { << Balance(3, NULL), Balance(2, 3) >>,
      << Balance(5, 3), Balance(3, 2) >>,
      << Balance(8, NULL) >> }

Backends == {"sqlite", "postgresql"}

NoInvoice == [id |-> NULL, customer_id |-> NULL, invoice_number |-> <<>>, status |-> "none",
              amount |-> 0, items |-> <<>>, billing_period |-> NULL]

NoSession == [customer_id |-> NULL, start_date |-> NULL, end_date |-> NULL,
              subscription_id |-> NULL, invoice |-> NoInvoice, draws |-> <<>>]

\* no pricing computation requested
NoEval == [op |-> "none"]

NoCall == [op |-> "none", result |-> "none", id |-> NULL]

\* a stored subscription, active as create_subscription stores it
Stored(subscription) ==
    [customer_id |-> subscription.customer_id, plan_id |-> subscription.plan_id,
     start_date |-> subscription.start_date, end_date |-> subscription.end_date,
     is_active |-> TRUE]

\* the state of everything but the plans, the subscription registry and the
\* evaluator
InitBilling ==
    /\ backend \in Backends
    /\ now = 1
    /\ invoices = {}
    /\ balances \in BalanceFixtures
    /\ transactions = <<>>
    /\ period_invoice = [b \in DOMAIN BillingPeriods |-> NULL]
    /\ pc = [p \in Sessions |-> "idle"]
    /\ sess = [p \in Sessions |-> NoSession]
    /\ dbLock = NULL
    /\ last = NoCall

Init ==
    /\ InitBilling
    /\ catalog \in Catalogs
    /\ eval = NoEval
    /\ subscription_table = [i \in DOMAIN Subscriptions |-> Stored(Subscriptions[i])]
    /\ billing_period_table = BillingPeriods
    /\ usage_event_table = <<>>

(***************************************************************************)
(* BillingEngine.calculate_usage_for_date_range: the customer's events     *)
(* with start_date <= event_time <= end_date, summed per metric name.      *)
(***************************************************************************)
RECURSIVE SumQuantity(_)
SumQuantity(E) ==
    IF E = {} THEN 0
    ELSE LET e == CHOOSE x \in E : TRUE IN e.quantity + SumQuantity(E \ {e})

calculate_usage_for_date_range(customer_id, start_date, end_date) ==
    LET usage_events == { e \in catalog.events :
                            /\ e.customer_id = customer_id
                            /\ e.event_time >= start_date
                            /\ e.event_time <= end_date }
    IN  [m \in { e.metric_name : e \in usage_events } |->
            SumQuantity({ e \in usage_events : e.metric_name = m })]

(***************************************************************************)
(* BillingEngine._calculate_commitment_charges_for_date_range.  The dict   *)
(* metric_id -> charge is a sequence of pairs in insertion order.          *)
(***************************************************************************)
DictGet(d, k, default) ==
    IF \E i \in DOMAIN d : d[i].key = k
    THEN d[CHOOSE i \in DOMAIN d : d[i].key = k].value
    ELSE default

DictPop(d, k) == SelectSeq(d, LAMBDA kv : kv.key # k)

DictSet(d, k, v) ==
    IF \E i \in DOMAIN d : d[i].key = k
    THEN [i \in DOMAIN d |-> IF d[i].key = k THEN [key |-> k, value |-> v] ELSE d[i]]
    ELSE Append(d, [key |-> k, value |-> v])

\* the loop recording a minimum already when it equals the actual charge
RECURSIVE CommitmentLoopAtLeast(_, _, _)
CommitmentLoopAtLeast(commitment_tiers, usage_by_metric, commitment_charges) ==
    IF commitment_tiers = <<>> THEN commitment_charges
    ELSE LET commitment == Head(commitment_tiers)
             committed_amount == commitment.committed_amount
             rate == commitment.rate
             actual_usage == Get(usage_by_metric, Metrics[commitment.metric_id].name, 0)
             committed_charge == committed_amount * rate
             actual_charge ==
                 IF actual_usage > 0
                 THEN IF commitment.overage_rate # NULL /\ actual_usage > committed_amount
                      THEN committed_amount * rate
                           + (actual_usage - committed_amount) * commitment.overage_rate
                      ELSE actual_usage * rate
                 ELSE 0
         IN  CommitmentLoopAtLeast(Tail(commitment_tiers), usage_by_metric,
                 IF committed_charge >= actual_charge
                 THEN DictSet(commitment_charges, commitment.metric_id, committed_charge)
                 ELSE commitment_charges)

RECURSIVE CommitmentLoop(_, _, _)
CommitmentLoop(commitment_tiers, usage_by_metric, commitment_charges) ==
    IF commitment_tiers = <<>> THEN commitment_charges
    ELSE LET commitment == Head(commitment_tiers)
             committed_amount == commitment.committed_amount
             rate == commitment.rate
             actual_usage == Get(usage_by_metric, Metrics[commitment.metric_id].name, 0)
             committed_charge == committed_amount * rate
             actual_charge ==
                 IF actual_usage > 0
                 THEN IF commitment.overage_rate # NULL /\ actual_usage > committed_amount
                      THEN committed_amount * rate
                           + (actual_usage - committed_amount) * commitment.overage_rate
                      ELSE actual_usage * rate
                 ELSE 0
         IN  CommitmentLoop(Tail(commitment_tiers), usage_by_metric,
                 IF committed_charge > actual_charge
                 THEN DictSet(commitment_charges, commitment.metric_id, committed_charge)
                 ELSE commitment_charges)

calculate_commitment_charges_for_date_range(subscription_id, start_date, end_date, usage_by_metric) ==
    CommitmentLoop(
        SelectSeq(catalog.commitment_tiers,
                  LAMBDA c : /\ c.subscription_id = subscription_id
                             /\ c.start_date <= end_date
                             /\ (c.end_date = NULL \/ c.end_date >= start_date)),
        usage_by_metric, <<>>)

(***************************************************************************)
(* The line items of generate_invoice_for_date_range (the loop over the    *)
(* subscriptions found).  A result is [err, items]; err when the pricing   *)
(* evaluator raised.                                                       *)
(***************************************************************************)
Item(description, metric_name, quantity, unit_n, unit_d, amount, subscription_id) ==
    [description |-> description, metric_name |-> metric_name, quantity |-> quantity,
     unit_n |-> unit_n, unit_d |-> unit_d, amount |-> amount,
     subscription_id |-> subscription_id]

IsFee(component) == component.pricing_type \in {"flat", "subscription"}

\* self.db.add(invoice_item); total_amount += charge
AddItem(acc, item, charge) ==
    [acc EXCEPT !.items = Append(@, item), !.total_amount = @ + charge]

Raise(acc) == [acc EXCEPT !.err = TRUE]

\* the subscription base charges: flat and subscription components at quantity 1
RECURSIVE BaseChargeItems(_, _, _)
BaseChargeItems(components, subscription, acc) ==
    IF components = <<>> \/ acc.err THEN acc
    ELSE LET component == Head(components)
             r == calculate_charge_for_component(component, 1)
         IN  IF ~IsFee(component) THEN BaseChargeItems(Tail(components), subscription, acc)
             ELSE IF r.err THEN Raise(acc)
             ELSE BaseChargeItems(Tail(components), subscription,
                      AddItem(acc, Item(r.description, component.metric_name, 1,
                                        r.unit_n, r.unit_d, r.charge, subscription),
                              r.charge))

\* the usage-based charges, overlaid with the commitment minimums
RECURSIVE UsageChargeItems(_, _, _, _, _)
UsageChargeItems(components, subscription, subscription_id, usage_by_metric, acc) ==
    IF components = <<>> \/ acc.err THEN acc
    ELSE LET component == Head(components)
             usage_quantity == Get(usage_by_metric, component.metric_name, 0)
             r == calculate_charge_for_component(component, usage_quantity)
             overlay == component.metric_id # NULL /\ subscription_id # NULL
             commitment_charge ==
                 IF overlay THEN DictGet(acc.commitment_charges, component.metric_id, 0) ELSE 0
             useMinimum == commitment_charge > 0 /\ commitment_charge > r.charge
             charge == IF useMinimum THEN commitment_charge ELSE r.charge
             description == IF useMinimum THEN "Minimum commitment" ELSE r.description
             popped == IF commitment_charge > 0
                       THEN [acc EXCEPT !.commitment_charges = DictPop(@, component.metric_id)]
                       ELSE acc
         IN  IF IsFee(component) /\ subscription_id # NULL
             THEN UsageChargeItems(Tail(components), subscription, subscription_id,
                                   usage_by_metric, acc)
             ELSE IF r.err THEN Raise(acc)
             ELSE UsageChargeItems(Tail(components), subscription, subscription_id,
                      usage_by_metric,
                      IF charge > 0 \/ usage_quantity > 0
                      THEN AddItem(popped, Item(description, component.metric_name,
                                                usage_quantity, r.unit_n, r.unit_d, charge,
                                                subscription),
                                   charge)
                      ELSE popped)

\* the commitments no component consumed, as standalone items
RECURSIVE CommitmentItems(_, _, _)
CommitmentItems(commitment_charges, subscription, acc) ==
    IF commitment_charges = <<>> \/ acc.err THEN acc
    ELSE LET kv == Head(commitment_charges)
         IN  CommitmentItems(Tail(commitment_charges), subscription,
                 IF kv.key \in DOMAIN Metrics /\ kv.value > 0
                 THEN AddItem(acc, Item("Minimum commitment", Metrics[kv.key].name, 0, 0, 1,
                                        kv.value, subscription),
                              kv.value)
                 ELSE acc)

\* one turn of "for subscription in subscriptions"
SubscriptionItems(subscription, subscription_id, start_date, end_date, usage_by_metric, acc) ==
    LET components == catalog.components
        base == IF subscription_id # NULL
                THEN BaseChargeItems(components, subscription, acc)
                ELSE acc
        commitment_charges ==
            IF subscription_id # NULL
            THEN calculate_commitment_charges_for_date_range(
                     subscription, start_date, end_date, usage_by_metric)
            ELSE <<>>
        usage == UsageChargeItems(components, subscription, subscription_id, usage_by_metric,
                                  [base EXCEPT !.commitment_charges = commitment_charges])
    IN  IF subscription_id # NULL
        THEN CommitmentItems(usage.commitment_charges, subscription, usage)
        ELSE usage

\* the subscriptions the invoice is assembled for
SubscriptionsFor(customer_id, start_date, end_date, subscription_id) ==
    IF subscription_id # NULL
    THEN IF subscription_id \in DOMAIN Subscriptions THEN <<subscription_id>> ELSE <<>>
    ELSE SelectSeq([i \in DOMAIN Subscriptions |-> i],
                   LAMBDA i : /\ Subscriptions[i].customer_id = customer_id
                              /\ Subscriptions[i].start_date <= end_date
                              /\ (Subscriptions[i].end_date = NULL
                                  \/ Subscriptions[i].end_date >= start_date))

RECURSIVE InvoiceItems(_, _, _, _, _, _)
InvoiceItems(subscriptions, subscription_id, start_date, end_date, usage_by_metric, acc) ==
    IF subscriptions = <<>> \/ acc.err THEN acc
    ELSE InvoiceItems(Tail(subscriptions), subscription_id, start_date, end_date,
                      usage_by_metric,
                      SubscriptionItems(Head(subscriptions), subscription_id,
                                        start_date, end_date, usage_by_metric, acc))

NoItems == [err |-> FALSE, items |-> <<>>, total_amount |-> 0, commitment_charges |-> <<>>]

(***************************************************************************)
(* Credit balances: the queries and the draw-down loop shared by           *)
(* BillingEngine._apply_credits_to_invoice and                             *)
(* CreditManager.apply_credits_manually.                                   *)
(***************************************************************************)
\* ORDER BY credit_balances.expires_at ASC: the code names no NULLS FIRST or
\* NULLS LAST, so a NULL sorts where the database puts it (first on sqlite,
\* last on postgresql); equal keys come in id order.
ExpiresBefore(a, b) ==
    LET ea == balances[a].expires_at
        eb == balances[b].expires_at
    IN  IF ea = eb THEN a < b
        ELSE IF ea = NULL THEN backend = "sqlite"
        ELSE IF eb = NULL THEN backend # "sqlite"
        ELSE ea < eb

RECURSIVE OrderByExpiresAt(_)
OrderByExpiresAt(ids) ==
    IF ids = {} THEN <<>>
    ELSE LET first == CHOOSE a \in ids : \A b \in ids \ {a} : ExpiresBefore(a, b)
         IN  <<first>> \o OrderByExpiresAt(ids \ {first})

\* the filter of _apply_credits_to_invoice: customer, ACTIVE, remaining > 0
InvoiceCredits(customer_id) ==
    { i \in DOMAIN balances :
        /\ balances[i].customer_id = customer_id
        /\ balances[i].status = "active"
        /\ balances[i].remaining_amount > 0 }

\* the filter of get_customer_credit_balance and apply_credits_manually:
\* the same, and not past expires_at
ActiveCredits(customer_id) ==
    { i \in InvoiceCredits(customer_id) :
        balances[i].expires_at = NULL \/ balances[i].expires_at > now }

RECURSIVE SumRemaining(_)
SumRemaining(ids) ==
    IF ids = {} THEN 0
    ELSE LET i == CHOOSE x \in ids : TRUE
         IN  balances[i].remaining_amount + SumRemaining(ids \ {i})

get_customer_credit_balance(customer_id) == SumRemaining(ActiveCredits(customer_id))

\* One pass of "for credit in active_credits": draws is the sequence of
\* [id, amount, remaining_amount, consumed] for the balances drawn from, in
\* the order drawn; left is what is still owed after the loop.
\* the draw that empties the balance whatever is owed
AmountToApplyAll(credit_remaining, owed) == credit_remaining

AmountToApply(credit_remaining, owed) == Min(credit_remaining, owed)

IsConsumed(remaining_amount) == remaining_amount <= 0

RECURSIVE DrawLoop(_, _, _)
DrawLoop(active_credits, owed, draws) ==
    IF active_credits = <<>> \/ owed <= 0 THEN [draws |-> draws, left |-> owed]
    ELSE LET id == Head(active_credits)
             amount_to_apply == AmountToApply(balances[id].remaining_amount, owed)
             remaining == balances[id].remaining_amount - amount_to_apply
         IN  IF amount_to_apply <= 0
             THEN DrawLoop(Tail(active_credits), owed, draws)
             ELSE DrawLoop(Tail(active_credits), owed - amount_to_apply,
                      Append(draws, [id |-> id, amount |-> amount_to_apply,
                                     remaining_amount |-> remaining,
                                     consumed |-> IsConsumed(remaining)]))

\* the UPDATE and INSERT statements a commit flushes for a sequence of draws:
\* remaining_amount as the session computed it, status only where it changed
WriteDraws(draws) ==
    [i \in DOMAIN balances |->
        IF \E k \in DOMAIN draws : draws[k].id = i
        THEN LET d == draws[CHOOSE k \in DOMAIN draws : draws[k].id = i]
             IN  [balances[i] EXCEPT !.remaining_amount = d.remaining_amount,
                                     !.status = IF d.consumed THEN "consumed" ELSE @]
        ELSE balances[i]]

DrawTransactions(draws, invoice_id, description) ==
    [k \in DOMAIN draws |->
        [credit_balance_id |-> draws[k].id, amount |-> 0 - draws[k].amount,
         description |-> description, invoice_id |-> invoice_id]]

CreditItems(draws) ==
    [k \in DOMAIN draws |->
        Item("Credit applied", "None", 1, 0 - draws[k].amount, 1, 0 - draws[k].amount, NULL)]

(***************************************************************************)
(* The database session of a request handler.  Rows a handler adds or      *)
(* changes stay in its session until commit; an exception or a cancelled   *)
(* request closes the session, which rolls the pending rows back.  On      *)
(* sqlite the first INSERT of a transaction takes the database-wide write  *)
(* lock, held until commit or rollback; other writers wait for it.         *)
(***************************************************************************)
CanWrite(p) == backend # "sqlite" \/ dbLock \in {NULL, p}

Acquire(p) == IF backend = "sqlite" THEN p ELSE dbLock

Release(p) == IF dbLock = p THEN NULL ELSE dbLock

Pending == { sess[q].invoice : q \in { r \in Sessions : pc[r] \in {"credits", "commit"} } }

\* the id the database gives the next row of table invoices: one no stored
\* or flushed row holds (the least such, ids of rolled back rows are reused)
NextInvoiceId ==
    LET used == { i.id : i \in invoices \cup Pending }
    IN  CHOOSE n \in 1..(Cardinality(used) + 1) :
            n \notin used /\ \A m \in 1..(n - 1) : m \in used

Day(t) == t \div DayLen

\* the three renderings of a datetime that invoice numbers are built from
Ymd(t) == <<"%Y%m%d", Day(t)>>

YmdHMS(t) == <<"%Y%m%d%H%M%S", t>>

Timestamp(t) == <<"timestamp", t>>

\* f"INV-{time_str}-{customer_id}-{start_date.strftime('%Y%m%d')}"
GeneratedNumber(current_time, customer_id, start_date) ==
    <<"INV", YmdHMS(current_time), customer_id, Ymd(start_date)>>

Returned(op, result, id) == [op |-> op, result |-> result, id |-> id]

Tick ==
    /\ now < MaxTime
    /\ now' = now + 1
    /\ UNCHANGED <<registry, eval, backend, catalog, invoices, balances, transactions,
                   period_invoice,
                   pc, sess, dbLock, last>>

(***************************************************************************)
(* BillingEngine.generate_invoice_for_date_range, in the steps between     *)
(* which the database is visible to other handlers.                        *)
(***************************************************************************)
\* lines 352-542: the customer check, the reads, the draft invoice and its
\* flush, the line items, invoice.amount = total_amount.  Between the flush
\* and the credit query the handler reads only rows no handler here writes.
Begin(p, customer_id, start_date, end_date, subscription_id, billing_period) ==
    LET invoice_number == GeneratedNumber(now, customer_id, start_date)
        usage_by_metric == calculate_usage_for_date_range(customer_id, start_date, end_date)
        subscriptions == SubscriptionsFor(customer_id, start_date, end_date, subscription_id)
        r == InvoiceItems(subscriptions, subscription_id, start_date, end_date,
                          usage_by_metric, NoItems)
        invoice == [id |-> NextInvoiceId, customer_id |-> customer_id,
                    invoice_number |-> invoice_number, status |-> "draft",
                    amount |-> r.total_amount, items |-> r.items,
                    billing_period |-> billing_period]
    IN  /\ pc[p] = "idle"
        /\ \A q \in Sessions : q < p => pc[q] # "idle"
        /\ IF customer_id \notin Customers
           THEN /\ last' = Returned("generate", "ValueError", NULL)
                /\ UNCHANGED <<pc, sess, dbLock>>
           ELSE /\ CanWrite(p)
                /\ Cardinality(invoices \cup Pending) < MaxInvoices
                /\ \A i \in Pending : i.invoice_number # invoice_number
                /\ IF \E i \in invoices : i.invoice_number = invoice_number
                   THEN \* UNIQUE constraint failed: invoices.invoice_number
                        /\ last' = Returned("generate", "IntegrityError", NULL)
                        /\ UNCHANGED <<pc, sess, dbLock>>
                   ELSE IF r.err
                   THEN \* KeyError out of calculate_charge_for_component
                        /\ last' = Returned("generate", "KeyError", NextInvoiceId)
                        /\ UNCHANGED <<pc, sess, dbLock>>
                   ELSE /\ pc' = [pc EXCEPT ![p] = "credits"]
                        /\ sess' = [sess EXCEPT ![p] =
                               [customer_id |-> customer_id, start_date |-> start_date,
                                end_date |-> end_date, subscription_id |-> subscription_id,
                                invoice |-> invoice, draws |-> <<>>]]
                        /\ dbLock' = Acquire(p)
                        /\ UNCHANGED last
        /\ UNCHANGED <<registry, eval, backend, catalog, now, invoices, balances,
                       transactions, period_invoice>>

GenerateInvoiceForDateRange(p) ==
    \E customer_id \in CustomerIds, subscription_id \in {NULL, 1} :
        Begin(p, customer_id, 1, 2, subscription_id, NULL)

\* BillingEngine.generate_invoice, lines 565-587
GenerateInvoice(p) ==
    \E bp \in DOMAIN BillingPeriods :
        LET subscription == BillingPeriods[bp].subscription_id
        IN  Begin(p, Subscriptions[subscription].customer_id, BillingPeriods[bp].start_date,
                  BillingPeriods[bp].end_date, subscription, bp)

\* lines 544-546 and _apply_credits_to_invoice
\* the return without its floor at zero
FinalAmountUnfloored(left) == left

\* line 732: return max(0, remaining_amount)
FinalAmount(left) == Max(0, left)

ApplyCreditsToInvoice(p) ==
    LET s == sess[p]
        active_credits == OrderByExpiresAt(InvoiceCredits(s.customer_id))
        r == DrawLoop(active_credits, s.invoice.amount, <<>>)
    IN  /\ pc[p] = "credits"
        /\ pc' = [pc EXCEPT ![p] = "commit"]
        /\ sess' = [sess EXCEPT ![p].invoice.items = @ \o CreditItems(r.draws),
                                ![p].invoice.amount = FinalAmount(r.left),
                                ![p].draws = r.draws]
        /\ UNCHANGED <<registry, eval, backend, catalog, now, invoices, balances, transactions,
                       period_invoice, dbLock, last>>

\* line 548: self.db.commit()
Commit(p) ==
    LET s == sess[p]
    IN  /\ pc[p] = "commit"
        /\ invoices' = invoices \cup {s.invoice}
        /\ balances' = WriteDraws(s.draws)
        /\ transactions' = transactions
                           \o DrawTransactions(s.draws, s.invoice.id, "Applied to invoice")
        /\ dbLock' = Release(p)
        /\ IF s.invoice.billing_period # NULL
           THEN /\ pc' = [pc EXCEPT ![p] = "link"]
                /\ UNCHANGED <<sess, last>>
           ELSE /\ pc' = [pc EXCEPT ![p] = "idle"]
                /\ sess' = [sess EXCEPT ![p] = NoSession]
                /\ last' = Returned("generate", "ok", NULL)
        /\ UNCHANGED <<registry, eval, backend, catalog, now, period_invoice>>

\* generate_invoice, lines 589-598: the notes, the link, the second commit
LinkBillingPeriod(p) ==
    LET s == sess[p]
    IN  /\ pc[p] = "link"
        /\ CanWrite(p)
        /\ period_invoice' = [period_invoice EXCEPT ![s.invoice.billing_period] = s.invoice.id]
        /\ pc' = [pc EXCEPT ![p] = "idle"]
        /\ sess' = [sess EXCEPT ![p] = NoSession]
        /\ last' = Returned("generate", "ok", NULL)
        /\ UNCHANGED <<registry, eval, backend, catalog, now, invoices, balances,
                       transactions, dbLock>>

\* a database error or a cancelled request while the handler runs: the
\* exception leaves the handler and get_db closes the session
Fail(p) ==
    /\ pc[p] \in {"credits", "commit", "link"}
    /\ pc' = [pc EXCEPT ![p] = "idle"]
    /\ sess' = [sess EXCEPT ![p] = NoSession]
    /\ dbLock' = Release(p)
    /\ last' = Returned("generate", "error", sess[p].invoice.id)
    /\ UNCHANGED <<registry, eval, backend, catalog, now, invoices, balances, transactions,
                   period_invoice>>

(***************************************************************************)
(* CreditManager.  Each call runs in its own session and commits once.     *)
(***************************************************************************)
\* credit_balance.id as add_credits reads it at line 83: the balance was
\* added to the session and not flushed, so its primary key is still unset
UnflushedId == NULL

\* credit_transactions.credit_balance_id is nullable=False
AcceptsTransactions(rows) == \A k \in DOMAIN rows : rows[k].credit_balance_id # NULL

Amounts == {0, 3}

AddCredits ==
    \E customer_id \in CustomerIds, amount \in Amounts, expires_in_days \in {NULL, 1} :
        LET credit_balance == [customer_id |-> customer_id, amount |-> amount,
                               remaining_amount |-> amount, status |-> "active",
                               expires_at |-> IF expires_in_days # NULL /\ expires_in_days > 0
                                              THEN now + expires_in_days ELSE NULL]
            transaction == [credit_balance_id |-> UnflushedId, amount |-> amount,
                            description |-> "Initial credit", invoice_id |-> NULL]
        IN  /\ \A p \in Sessions : CanWrite(p)
            /\ IF customer_id \notin Customers \/ amount <= 0
               THEN /\ last' = Returned("add_credits", "None", NULL)
                    /\ UNCHANGED <<balances, transactions>>
               ELSE IF AcceptsTransactions(<<transaction>>)
               THEN /\ balances' = Append(balances, credit_balance)
                    /\ transactions' = Append(transactions, transaction)
                    /\ last' = Returned("add_credits", "ok", NULL)
               ELSE \* NOT NULL constraint failed: the commit raises, nothing is stored
                    /\ last' = Returned("add_credits", "IntegrityError", NULL)
                    /\ UNCHANGED <<balances, transactions>>
            /\ UNCHANGED <<registry, eval, backend, catalog, now, invoices, period_invoice,
                           pc, sess, dbLock>>

ApplyCreditsManually ==
    \E customer_id \in CustomerIds, amount \in Amounts \ {0} :
        LET available_credits == get_customer_credit_balance(customer_id)
            active_credits == OrderByExpiresAt(ActiveCredits(customer_id))
            r == DrawLoop(active_credits, amount, <<>>)
        IN  /\ \A p \in Sessions : CanWrite(p)
            /\ IF available_credits < amount
               THEN /\ last' = Returned("apply_credits_manually", "False", NULL)
                    /\ UNCHANGED <<balances, transactions>>
               ELSE /\ balances' = WriteDraws(r.draws)
                    /\ transactions' = transactions \o DrawTransactions(r.draws, NULL, "Manual")
                    /\ last' = Returned("apply_credits_manually", "True", NULL)
            /\ UNCHANGED <<registry, eval, backend, catalog, now, invoices, period_invoice,
                           pc, sess, dbLock>>

\* the rows expire_credits selects: ACTIVE and expires_at <= now
Expirable == { i \in DOMAIN balances : /\ balances[i].status = "active"
                                       /\ balances[i].expires_at # NULL
                                       /\ balances[i].expires_at <= now }

RECURSIVE ExpiryTransactions(_)
ExpiryTransactions(ids) ==
    IF ids = {} THEN <<>>
    ELSE LET i == CHOOSE x \in ids : \A y \in ids : x <= y
         IN  (IF balances[i].remaining_amount > 0
              THEN << [credit_balance_id |-> i, amount |-> 0 - balances[i].remaining_amount,
                       description |-> "Credits expired", invoice_id |-> NULL] >>
              ELSE <<>>) \o ExpiryTransactions(ids \ {i})

ExpireCredits ==
    /\ \A p \in Sessions : CanWrite(p)
    /\ balances' = [i \in DOMAIN balances |->
                       IF i \in Expirable THEN [balances[i] EXCEPT !.status = "expired"]
                       ELSE balances[i]]
    /\ transactions' = transactions \o ExpiryTransactions(Expirable)
    /\ last' = Returned("expire_credits", "ok", NULL)
    /\ UNCHANGED <<registry, eval, backend, catalog, now, invoices, period_invoice, pc,
                   sess, dbLock>>

(***************************************************************************)
(* InvoiceManager.  Each call reads the invoice, changes it and commits.    *)
(***************************************************************************)
InvoiceStatus == {"draft", "pending", "paid", "failed", "void"}

\* the row of table invoices with this id replaced by its new value
Store(invoice, updated) == (invoices \ {invoice}) \cup {updated}

\* f"INV-{issue_date.strftime('%Y%m%d')}-{customer_id}-{int(datetime.utcnow().timestamp())}"
EmptyNumber(issue_date, customer_id) ==
    <<"INV", Ymd(issue_date), customer_id, Timestamp(now)>>

CreateEmptyInvoice ==
    \E customer_id \in CustomerIds, given \in {NULL, 1} :
        LET issue_date == IF given = NULL THEN now ELSE given
            invoice_number == EmptyNumber(issue_date, customer_id)
            invoice == [id |-> NextInvoiceId, customer_id |-> customer_id,
                        invoice_number |-> invoice_number, status |-> "draft",
                        amount |-> 0, items |-> <<>>, billing_period |-> NULL]
        IN  /\ \A p \in Sessions : CanWrite(p)
            /\ IF customer_id \notin Customers
               THEN /\ last' = Returned("create_empty_invoice", "None", NULL)
                    /\ UNCHANGED invoices
               ELSE IF \E i \in invoices : i.invoice_number = invoice_number
               THEN \* UNIQUE constraint failed: invoices.invoice_number
                    /\ last' = Returned("create_empty_invoice", "IntegrityError", NULL)
                    /\ UNCHANGED invoices
               ELSE /\ Cardinality(invoices \cup Pending) < MaxInvoices
                    /\ invoices' = invoices \cup {invoice}
                    /\ last' = Returned("create_empty_invoice", "ok", invoice.id)
            /\ UNCHANGED <<registry, eval, backend, catalog, now, balances, transactions,
                           period_invoice,
                           pc, sess, dbLock>>

UpdateInvoiceStatus ==
    \E invoice \in invoices, status \in InvoiceStatus \cup {"refunded"} :
        /\ \A p \in Sessions : CanWrite(p)
        /\ IF status \notin InvoiceStatus
           THEN /\ last' = Returned("update_invoice_status", "None", invoice.id)
                /\ UNCHANGED invoices
           ELSE /\ invoices' = Store(invoice, [invoice EXCEPT !.status = status])
                /\ last' = Returned("update_invoice_status", "ok", invoice.id)
        /\ UNCHANGED <<registry, eval, backend, catalog, now, balances, transactions,
                       period_invoice,
                       pc, sess, dbLock>>

ItemAmounts == {2}

\* add_invoice_item leaving invoice.amount as it was
AddInvoiceItemNoTotal ==
    \E invoice \in invoices, amount \in ItemAmounts, quantity \in {NULL, 2} :
        LET by_quantity == quantity # NULL /\ quantity > 0
            invoice_item == Item("Manual item", "None", quantity,
                                 amount, IF by_quantity THEN quantity ELSE 1,
                                 amount, NULL)
        IN  /\ \A p \in Sessions : CanWrite(p)
            /\ IF invoice.status # "draft"
               THEN /\ last' = Returned("add_invoice_item", "None", invoice.id)
                    /\ UNCHANGED invoices
               ELSE /\ Len(invoice.items) < MaxItems
                    /\ invoices' = Store(invoice,
                           [invoice EXCEPT !.items = Append(@, invoice_item)])
                    /\ last' = Returned("add_invoice_item", "ok", invoice.id)
            /\ UNCHANGED <<registry, eval, backend, catalog, now, balances, transactions,
                           period_invoice,
                           pc, sess, dbLock>>

AddInvoiceItem ==
    \E invoice \in invoices, amount \in ItemAmounts, quantity \in {NULL, 2} :
        LET by_quantity == quantity # NULL /\ quantity > 0
            invoice_item == Item("Manual item", "None", quantity,
                                 amount, IF by_quantity THEN quantity ELSE 1,
                                 amount, NULL)
        IN  /\ \A p \in Sessions : CanWrite(p)
            /\ IF invoice.status # "draft"
               THEN /\ last' = Returned("add_invoice_item", "None", invoice.id)
                    /\ UNCHANGED invoices
               ELSE /\ Len(invoice.items) < MaxItems
                    /\ invoices' = Store(invoice,
                           [invoice EXCEPT !.items = Append(@, invoice_item),
                                           !.amount = @ + amount])
                    /\ last' = Returned("add_invoice_item", "ok", invoice.id)
            /\ UNCHANGED <<registry, eval, backend, catalog, now, balances, transactions,
                           period_invoice,
                           pc, sess, dbLock>>

\* the sequence without its k-th element
Without(seq, k) == SubSeq(seq, 1, k - 1) \o SubSeq(seq, k + 1, Len(seq))

RemoveInvoiceItem ==
    \E invoice \in invoices :
        \E k \in DOMAIN invoice.items :
            /\ \A p \in Sessions : CanWrite(p)
            /\ IF invoice.status # "draft"
               THEN /\ last' = Returned("remove_invoice_item", "False", invoice.id)
                    /\ UNCHANGED invoices
               ELSE /\ invoices' = Store(invoice,
                           [invoice EXCEPT !.items = Without(@, k),
                                           !.amount = @ - invoice.items[k].amount])
                    /\ last' = Returned("remove_invoice_item", "True", invoice.id)
            /\ UNCHANGED <<registry, eval, backend, catalog, now, balances, transactions,
                           period_invoice,
                           pc, sess, dbLock>>

FinalizeInvoice ==
    \E invoice \in invoices :
        /\ \A p \in Sessions : CanWrite(p)
        /\ IF invoice.status # "draft"
           THEN /\ last' = Returned("finalize_invoice", "None", invoice.id)
                /\ UNCHANGED invoices
           ELSE /\ invoices' = Store(invoice, [invoice EXCEPT !.status = "pending"])
                /\ last' = Returned("finalize_invoice", "ok", invoice.id)
        /\ UNCHANGED <<registry, eval, backend, catalog, now, balances, transactions,
                       period_invoice,
                       pc, sess, dbLock>>

VoidInvoice ==
    \E invoice \in invoices :
        /\ \A p \in Sessions : CanWrite(p)
        /\ IF invoice.status = "paid"
           THEN /\ last' = Returned("void_invoice", "None", invoice.id)
                /\ UNCHANGED invoices
           ELSE /\ invoices' = Store(invoice, [invoice EXCEPT !.status = "void"])
                /\ last' = Returned("void_invoice", "ok", invoice.id)
        /\ UNCHANGED <<registry, eval, backend, catalog, now, balances, transactions,
                       period_invoice,
                       pc, sess, dbLock>>

(***************************************************************************)
(* The billing system: request handlers generating invoices side by side,  *)
(* the credit operations and the clock.                                    *)
(***************************************************************************)
Next ==
    \/ Tick
    \/ \E p \in Sessions : GenerateInvoiceForDateRange(p)
    \/ \E p \in Sessions : GenerateInvoice(p)
    \/ \E p \in Sessions : ApplyCreditsToInvoice(p)
    \/ \E p \in Sessions : Commit(p)
    \/ \E p \in Sessions : LinkBillingPeriod(p)
    \/ \E p \in Sessions : Fail(p)

Spec == Init /\ [][Next]_vars

(***************************************************************************)
(* The invoice lifecycle: InvoiceManager calls on one deployment.           *)
(***************************************************************************)
InitLifecycle ==
    /\ Init
    /\ backend = "sqlite"
    /\ catalog = StandardCatalog
    /\ balances = <<Balance(8, NULL)>>

NextLifecycle ==
    \/ Tick
    \/ CreateEmptyInvoice
    \/ UpdateInvoiceStatus
    \/ AddInvoiceItem
    \/ RemoveInvoiceItem
    \/ FinalizeInvoice
    \/ VoidInvoice

SpecLifecycle == InitLifecycle /\ [][NextLifecycle]_vars

(***************************************************************************)
(* The credit ledger: CreditManager calls beside invoice generation, on a  *)
(* catalog whose invoices draw credit.                                     *)
(***************************************************************************)
InitLedger ==
    /\ Init
    /\ catalog = StandardCatalog

NextLedger ==
    \/ Tick
    \/ AddCredits
    \/ ApplyCreditsManually
    \/ ExpireCredits
    \/ \E p \in Sessions : GenerateInvoiceForDateRange(p)
    \/ \E p \in Sessions : GenerateInvoice(p)
    \/ \E p \in Sessions : ApplyCreditsToInvoice(p)
    \/ \E p \in Sessions : Commit(p)
    \/ \E p \in Sessions : LinkBillingPeriod(p)

SpecLedger == InitLedger /\ [][NextLedger]_vars

(***************************************************************************)
(* The calendar behind datetime: a time t is DayLen ticks per day, day 0   *)
(* being the first of January of the epoch year.                           *)
(***************************************************************************)
Epoch == [year |-> 2024, month |-> 1, day |-> 1]

IsLeap(y) == (y % 4 = 0 /\ y % 100 # 0) \/ y % 400 = 0

DaysInMonth(y, m) ==
    CASE m \in {1, 3, 5, 7, 8, 10, 12} -> 31
      [] m \in {4, 6, 9, 11} -> 30
      [] OTHER -> IF IsLeap(y) THEN 29 ELSE 28

DaysInYear(y) == IF IsLeap(y) THEN 366 ELSE 365

RECURSIVE DaysBeforeYear(_)
DaysBeforeYear(y) == IF y <= Epoch.year THEN 0 ELSE DaysInYear(y - 1) + DaysBeforeYear(y - 1)

RECURSIVE DaysBeforeMonth(_, _)
DaysBeforeMonth(y, m) == IF m <= 1 THEN 0 ELSE DaysInMonth(y, m - 1) + DaysBeforeMonth(y, m - 1)

\* the year holding day n counted from the first day of year y, and the rest
RECURSIVE YearFrom(_, _)
YearFrom(y, n) ==
    IF n < DaysInYear(y) THEN [year |-> y, rest |-> n] ELSE YearFrom(y + 1, n - DaysInYear(y))

RECURSIVE MonthFrom(_, _, _)
MonthFrom(y, m, n) ==
    IF n < DaysInMonth(y, m) THEN [month |-> m, rest |-> n]
    ELSE MonthFrom(y, m + 1, n - DaysInMonth(y, m))

\* datetime attributes year, month, day (and the time of day) of a time
Civil(t) ==
    LET yr == YearFrom(Epoch.year, Day(t))
        mo == MonthFrom(yr.year, 1, yr.rest)
    IN  [year |-> yr.year, month |-> mo.month, day |-> mo.rest + 1, time |-> t % DayLen]

\* datetime(year, month, day): midnight of that day, ValueError ("day is out
\* of range for month") when the month has no such day
datetime(year, month, day) ==
    IF day \notin 1..DaysInMonth(year, month)
    THEN [err |-> TRUE, value |-> NULL]
    ELSE [err |-> FALSE,
          value |-> (DaysBeforeYear(year) + DaysBeforeMonth(year, month) + day - 1) * DayLen]

\* timedelta(days=n)
timedelta(days) == days * DayLen

(***************************************************************************)
(* CustomerManager.create_subscription and cancel_subscription, with       *)
(* BillingEngine.create_billing_periods.                                   *)
(***************************************************************************)
MaxSubscriptions == 2

LoopChunk == 12

\* table plans: create_plan stores one of the three frequencies
Plans == << [billing_frequency |-> "monthly"],
            [billing_frequency |-> "quarterly"],
            [billing_frequency |-> "yearly"] >>

PlanIds == DOMAIN Plans \cup {Len(Plans) + 1}

\* a time given by its date and its time of day
At(year, month, day, time) == datetime(year, month, day).value + time

StartDates == {At(2024, 1, 31, 0), At(2024, 1, 15, 1), At(2024, 2, 29, 0), At(2024, 11, 30, 0)}

EndDates == {At(2024, 1, 10, 0), At(2024, 3, 10, 0), At(2025, 6, 15, 1)}

\* end_date argument of cancel_subscription
CancelDates == {At(2024, 1, 10, 0)}

\* lines 820-842: the end of the period starting at current_start
StepEnd(billing_frequency, current_start) ==
    LET c == Civil(current_start)
    IN  CASE billing_frequency = "monthly" ->
                 datetime(c.year + (c.month \div 12), (c.month % 12) + 1, c.day)
          [] billing_frequency = "quarterly" ->
                 datetime(c.year + ((c.month + 2) \div 12), ((c.month + 2) % 12) + 1, c.day)
          [] billing_frequency = "yearly" ->
                 datetime(c.year + 1, c.month, c.day)
          [] OTHER ->
                 datetime(c.year + (c.month \div 12), (c.month % 12) + 1, c.day)

\* lines 819-859: the iterations of "while current_start < end_date", at most
\* `fuel` of them in one evaluation; `done` tells that the loop has ended
RECURSIVE PeriodLoop(_, _, _, _, _, _)
PeriodLoop(subscription_id, billing_frequency, current_start, end_date, billing_periods, fuel) ==
    IF ~(current_start < end_date)
    THEN [err |-> FALSE, done |-> TRUE, current_start |-> current_start,
          billing_periods |-> billing_periods]
    ELSE IF fuel = 0
    THEN [err |-> FALSE, done |-> FALSE, current_start |-> current_start,
          billing_periods |-> billing_periods]
    ELSE LET stepped == StepEnd(billing_frequency, current_start)
             current_end == IF stepped.value > end_date THEN end_date ELSE stepped.value
             period == [subscription_id |-> subscription_id,
                        start_date |-> current_start, end_date |-> current_end]
         IN  IF stepped.err
             THEN [err |-> TRUE, done |-> TRUE, current_start |-> current_start,
                   billing_periods |-> <<>>]
             ELSE PeriodLoop(subscription_id, billing_frequency, current_end, end_date,
                             Append(billing_periods, period), fuel - 1)

\* the whole loop, evaluated LoopChunk iterations at a time
RECURSIVE PeriodLoopAll(_, _, _, _, _)
PeriodLoopAll(subscription_id, billing_frequency, current_start, end_date, billing_periods) ==
    LET part == PeriodLoop(subscription_id, billing_frequency, current_start, end_date,
                           billing_periods, LoopChunk)
    IN  IF part.done THEN [err |-> part.err, billing_periods |-> part.billing_periods]
        ELSE PeriodLoopAll(subscription_id, billing_frequency, part.current_start, end_date,
                           part.billing_periods)

\* subscription.end_date or the far future the code takes for an ongoing one
EndOrFarFuture(subscription) ==
    IF subscription.end_date # NULL THEN subscription.end_date
    ELSE subscription.start_date + timedelta(365 * 10)

create_billing_periods(subscription_id, subscription) ==
    PeriodLoopAll(subscription_id, Plans[subscription.plan_id].billing_frequency,
                  subscription.start_date, EndOrFarFuture(subscription), <<>>)

CreateSubscription ==
    \E customer_id \in CustomerIds, plan_id \in PlanIds,
       given_start \in {NULL} \cup StartDates, end_date \in {NULL} \cup EndDates :
        LET start_date == IF given_start = NULL THEN now ELSE given_start
            subscription == [customer_id |-> customer_id, plan_id |-> plan_id,
                             start_date |-> start_date, end_date |-> end_date,
                             is_active |-> TRUE]
            id == Len(subscription_table) + 1
            created == create_billing_periods(id, subscription)
        IN  /\ \A p \in Sessions : CanWrite(p)
            /\ IF customer_id \notin Customers \/ plan_id \notin DOMAIN Plans
               THEN /\ last' = Returned("create_subscription", "None", NULL)
                    /\ UNCHANGED <<subscription_table, billing_period_table>>
               ELSE /\ Len(subscription_table) < MaxSubscriptions
                    /\ subscription_table' = Append(subscription_table, subscription)
                    /\ IF created.err
                       THEN \* ValueError out of datetime(): the subscription is
                            \* committed, its periods are not
                            /\ last' = Returned("create_subscription", "ValueError", id)
                            /\ UNCHANGED billing_period_table
                       ELSE /\ billing_period_table' =
                                   billing_period_table \o created.billing_periods
                            /\ last' = Returned("create_subscription", "ok", id)
            /\ UNCHANGED <<usage_event_table, eval, backend, catalog, now, invoices, balances,
                           transactions, period_invoice, pc, sess, dbLock>>

CancelSubscription ==
    \E subscription_id \in 1..MaxSubscriptions, given_end \in {NULL} \cup CancelDates :
        LET end_date == IF given_end = NULL THEN now ELSE given_end
        IN  /\ \A p \in Sessions : CanWrite(p)
            /\ IF subscription_id \notin DOMAIN subscription_table
               THEN /\ last' = Returned("cancel_subscription", "None", NULL)
                    /\ UNCHANGED subscription_table
               ELSE /\ subscription_table' =
                           [subscription_table EXCEPT ![subscription_id].is_active = FALSE,
                                                      ![subscription_id].end_date = end_date]
                    /\ last' = Returned("cancel_subscription", "ok", subscription_id)
            /\ UNCHANGED <<billing_period_table, usage_event_table, eval, backend, catalog, now,
                           invoices, balances, transactions, period_invoice, pc, sess, dbLock>>

(***************************************************************************)
(* The subscription registry: subscriptions created and cancelled.         *)
(***************************************************************************)
NextRegistry ==
    \/ Tick
    \/ CreateSubscription
    \/ CancelSubscription

InitRegistry ==
    /\ Init
    /\ backend = "sqlite"
    /\ catalog = StandardCatalog
    /\ balances = <<Balance(8, NULL)>>

SpecRegistry == InitRegistry /\ [][NextRegistry]_vars

(***************************************************************************)
(* EventTracker.track_event, batch_track_events and                        *)
(* UsageManager.record_usage.                                              *)
(***************************************************************************)
MaxEvents == 2

EventTimes == {4}

Quantities == {1}

\* the result of a call that tracks usage, with the arguments it was given
Tracked(op, result, id, customer_id, event_time) ==
    [op |-> op, result |-> result, id |-> id,
     customer_id |-> customer_id, event_time |-> event_time]

\* the billing periods of a subscription with start_date <= t <= end_date
Containing(subscription_id, t) ==
    {b \in DOMAIN billing_period_table :
        /\ billing_period_table[b].subscription_id = subscription_id
        /\ billing_period_table[b].start_date <= t
        /\ billing_period_table[b].end_date >= t}

\* Query.first() of a query with no ORDER BY, as the set of rows it may
\* return: SQLite scans the table by rowid; PostgreSQL leaves the order of
\* the rows unspecified (a row that was updated moves in the heap)
First(rows) ==
    IF rows = {} THEN {NULL}
    ELSE IF backend = "sqlite" THEN {CHOOSE r \in rows : \A o \in rows : r <= o}
    ELSE rows

\* lines 149-164: the first subscription that has a matching period
RECURSIVE FindLoop(_, _)
FindLoop(subscriptions, event_time) ==
    IF subscriptions = <<>> THEN {NULL}
    ELSE LET billing_period == First(Containing(Head(subscriptions), event_time))
         IN  IF billing_period # {NULL} THEN billing_period
             ELSE FindLoop(Tail(subscriptions), event_time)

\* _find_billing_period without the test of is_active
find_billing_period_of_any(customer_id, event_time) ==
    LET IsCurrent(k) ==
            LET sub == subscription_table[k]
            IN  /\ sub.customer_id = customer_id
                /\ sub.start_date <= event_time
                /\ (sub.end_date = NULL \/ sub.end_date >= event_time)
        subscriptions == SelectSeq([k \in DOMAIN subscription_table |-> k], IsCurrent)
    IN  IF customer_id \notin Customers THEN {NULL}
        ELSE FindLoop(subscriptions, event_time)

\* EventTracker._find_billing_period: the periods it may return
find_billing_period(customer_id, event_time) ==
    LET IsCurrent(k) ==
            LET sub == subscription_table[k]
            IN  /\ sub.customer_id = customer_id
                /\ sub.is_active
                /\ sub.start_date <= event_time
                /\ (sub.end_date = NULL \/ sub.end_date >= event_time)
        subscriptions == SelectSeq([k \in DOMAIN subscription_table |-> k], IsCurrent)
    IN  IF customer_id \notin Customers THEN {NULL}
        ELSE FindLoop(subscriptions, event_time)

UsageEvent(customer_id, subscription_id, billing_period_id, metric_name, metric_id, quantity, event_time) ==
    [customer_id |-> customer_id, subscription_id |-> subscription_id,
     billing_period_id |-> billing_period_id, metric_name |-> metric_name,
     metric_id |-> metric_id, quantity |-> quantity, event_time |-> event_time]

\* usage_events.customer_id references customers.id: PostgreSQL refuses the
\* INSERT of a row for a missing customer, SQLite (foreign keys not switched
\* on) stores it
ForeignKeyFails(customer_id) == backend = "postgresql" /\ customer_id \notin Customers

TrackEvent ==
    \E customer_id \in CustomerIds, given_time \in {NULL} \cup EventTimes,
       quantity \in Quantities :
        LET event_time == IF given_time = NULL THEN now ELSE given_time
        IN  \E billing_period \in find_billing_period(customer_id, event_time) :
                LET usage_event == UsageEvent(customer_id, NULL, billing_period, "api_calls",
                                              NULL, quantity, event_time)
                IN  /\ \A p \in Sessions : CanWrite(p)
                    /\ Len(usage_event_table) < MaxEvents
                    /\ IF ForeignKeyFails(customer_id)
                       THEN /\ last' = Tracked("track_event", "IntegrityError", NULL,
                                               customer_id, event_time)
                            /\ UNCHANGED usage_event_table
                       ELSE /\ usage_event_table' = Append(usage_event_table, usage_event)
                            /\ last' = Tracked("track_event", "ok",
                                               Len(usage_event_table) + 1,
                                               customer_id, event_time)
                    /\ UNCHANGED <<subscription_table, billing_period_table, eval, backend,
                                   catalog, now, invoices, balances, transactions,
                                   period_invoice, pc, sess, dbLock>>

MaxBatch == 2

\* the event dictionaries of a batch: customer_id, and event_time or no such key
EventData == [customer_id : CustomerIds, event_time : {NULL}]

Batches == {<<>>} \cup {<<e>> : e \in EventData} \cup {<<e, f>> : e, f \in EventData}

\* lines 75-89: track_event for each element in turn, each one committed; an
\* exception ends the loop with the events before it stored
RECURSIVE BatchLoop(_, _, _)
BatchLoop(events, periods, table) ==
    IF events = <<>> THEN [err |-> FALSE, table |-> table]
    ELSE LET event_data == Head(events)
             event_time == IF event_data.event_time = NULL THEN now
                           ELSE event_data.event_time
             usage_event == UsageEvent(event_data.customer_id, NULL, Head(periods),
                                       "api_calls", NULL, 1, event_time)
         IN  IF ForeignKeyFails(event_data.customer_id) THEN [err |-> TRUE, table |-> table]
             ELSE BatchLoop(Tail(events), Tail(periods), Append(table, usage_event))

\* the periods the calls of _find_billing_period may return, one per event
PeriodChoices(events) ==
    {periods \in [DOMAIN events -> {NULL} \cup DOMAIN billing_period_table] :
        \A k \in DOMAIN events :
            periods[k] \in find_billing_period(
                               events[k].customer_id,
                               IF events[k].event_time = NULL THEN now
                               ELSE events[k].event_time)}

BatchTrackEvents ==
    \E events \in Batches :
        \E periods \in PeriodChoices(events) :
            LET done == BatchLoop(events, periods, usage_event_table)
            IN  /\ \A p \in Sessions : CanWrite(p)
                /\ Len(usage_event_table) + Len(events) <= MaxEvents
                /\ usage_event_table' = done.table
                /\ last' = Returned("batch_track_events",
                                    IF done.err THEN "IntegrityError" ELSE "ok",
                                    Len(done.table))
                /\ UNCHANGED <<subscription_table, billing_period_table, eval, backend,
                               catalog, now, invoices, balances, transactions,
                               period_invoice, pc, sess, dbLock>>

\* Metric.id of the metric of that name, None when there is none
MetricId(metric_name) ==
    IF \E m \in DOMAIN Metrics : Metrics[m].name = metric_name
    THEN CHOOSE m \in DOMAIN Metrics : Metrics[m].name = metric_name
    ELSE NULL

RecordUsage ==
    \E customer_id \in CustomerIds, subscription_id \in {NULL} \cup 1..(MaxSubscriptions + 1),
       given_period \in {NULL}, given_time \in {NULL} \cup EventTimes,
       quantity \in Quantities :
        LET event_time == IF given_time = NULL THEN now ELSE given_time
            found == /\ subscription_id \in DOMAIN subscription_table
                     /\ subscription_table[subscription_id].customer_id = customer_id
            looked_up == IF given_period = NULL /\ subscription_id # NULL
                         THEN First(Containing(subscription_id, event_time))
                         ELSE {given_period}
        IN  \E billing_period_id \in looked_up :
                /\ \A p \in Sessions : CanWrite(p)
                /\ Len(usage_event_table) < MaxEvents
                /\ IF customer_id \notin Customers \/ (subscription_id # NULL /\ ~found)
                   THEN /\ last' = Tracked("record_usage", "ValueError", NULL,
                                           customer_id, event_time)
                        /\ UNCHANGED usage_event_table
                   ELSE /\ usage_event_table' =
                               Append(usage_event_table,
                                      UsageEvent(customer_id, subscription_id,
                                                 billing_period_id, "api_calls",
                                                 MetricId("api_calls"), quantity, event_time))
                        /\ last' = Tracked("record_usage", "ok", Len(usage_event_table) + 1,
                                           customer_id, event_time)
                /\ UNCHANGED <<subscription_table, billing_period_table, eval, backend,
                               catalog, now, invoices, balances, transactions,
                               period_invoice, pc, sess, dbLock>>

(***************************************************************************)
(* Usage tracking: events tracked against the periods of two               *)
(* subscriptions of customer 1, the second starting where the first        *)
(* period of the first ends.                                               *)
(***************************************************************************)
TrackedSubscriptions ==
    << [customer_id |-> 1, plan_id |-> 1, start_date |-> 1, end_date |-> NULL],
       [customer_id |-> 1, plan_id |-> 1, start_date |-> 2, end_date |-> NULL] >>

TrackedPeriods ==
    BillingPeriods \o << [subscription_id |-> 2, start_date |-> 2, end_date |-> 3] >>

InitEvents ==
    /\ InitBilling
    /\ catalog = StandardCatalog
    /\ balances = <<Balance(8, NULL)>>
    /\ subscription_table = [i \in DOMAIN TrackedSubscriptions |->
                                 Stored(TrackedSubscriptions[i])]
    /\ billing_period_table = TrackedPeriods
    /\ usage_event_table = <<>>
    /\ eval = NoEval

NextEvents ==
    \/ Tick
    \/ TrackEvent
    \/ BatchTrackEvents
    \/ RecordUsage
    \/ CancelSubscription

SpecEvents == InitEvents /\ [][NextEvents]_vars

(***************************************************************************)
(* The pricing evaluator and the commitment engine on their own: the       *)
(* arguments of one call are drawn at the start, the call stores its       *)
(* result.                                                                 *)
(***************************************************************************)
MaxQuantity == 4

Prices == {1, 3}

TwoTiers(first, second) ==
    [tiers |-> << [start |-> 0, end |-> 2, price |-> first], [start |-> 2, price |-> second] >>]

\* tiers 0-1, 1-3 and 3 onwards, as the tiered component of the tests has them
ThreeTiers ==
    [tiers |-> << [start |-> 0, end |-> 1, price |-> 3], [start |-> 1, end |-> 3, price |-> 2],
                  [start |-> 3, price |-> 1] >>]

\* two tiers stored with the higher start first
HighestFirst == [tiers |-> << [start |-> 2, price |-> 3], [start |-> 0, price |-> 1] >>]

\* price components of every pricing type whose charge depends on
\* pricing_details only, with prices that are not negative
PricedComponents ==
    { Component("base_fee", NULL, "flat", [amount |-> 4]),
      Component("seat", NULL, "subscription", [amount |-> 3]),
      Component("api_calls", NULL, "package", [package_size |-> 2, package_price |-> 3]),
      Component("api_calls", NULL, "threshold",
                [thresholds |-> << [threshold |-> 1, price |-> 2],
                                   [threshold |-> 3, price |-> 1] >>]),
      Component("api_calls", NULL, "time_based", [rate_per_unit |-> 1]),
      Component("api_calls", NULL, "usage_based_subscription",
                [base_fee |-> 2, usage_price |-> 1]) }
    \cup { Component("api_calls", NULL, t, TwoTiers(first, second)) :
               t \in {"tiered", "volume", "graduated"}, first \in Prices, second \in Prices }
    \cup { Component("api_calls", NULL, "tiered", ThreeTiers) }
    \cup { Component("api_calls", NULL, t, HighestFirst) : t \in {"volume", "graduated"} }

ComponentCalls ==
    { [op |-> "calculate_charge_for_component", component |-> c, q1 |-> q1, q2 |-> q2] :
          c \in PricedComponents, q1 \in 0..MaxQuantity, q2 \in 0..MaxQuantity }

\* commitment tiers of subscription 1 on the metric api_calls
CommitmentTiers ==
    [subscription_id : {1}, metric_id : {1}, committed_amount : {2, 4}, rate : {1, 2},
     overage_rate : {NULL, 1, 3}, start_date : {1, 3}, end_date : {NULL, 1}]

\* a tier on the metric storage_gb
StorageTier ==
    [subscription_id |-> 1, metric_id |-> 2, committed_amount |-> 1, rate |-> 3,
     overage_rate |-> NULL, start_date |-> 1, end_date |-> NULL]

CommitmentCatalogs ==
    { [components |-> <<>>, commitment_tiers |-> tiers, events |-> {}] :
          tiers \in { <<c>> : c \in CommitmentTiers }
                    \cup { <<c, StorageTier>> : c \in CommitmentTiers } }

\* usage_by_metric: no usage of api_calls at all, or a quantity
UsageByMetric ==
    { [m \in {} |-> 0] } \cup { [m \in {"api_calls"} |-> q] : q \in 0..(MaxQuantity + 1) }

CommitmentCalls ==
    { [op |-> "calculate_commitment_charges", start_date |-> start_date, end_date |-> 2,
       usage_by_metric |-> u] : start_date \in {1, 2}, u \in UsageByMetric }

\* a range [a, c] and an instant b inside it
UsageCalls ==
    { [op |-> "calculate_usage_for_date_range", a |-> a, b |-> b, c |-> c] :
          a \in 1..(MaxTime + 1), b \in 1..(MaxTime + 1), c \in 1..(MaxTime + 1) }

InitPricing ==
    /\ InitBilling
    /\ backend = "sqlite"
    /\ balances = <<Balance(8, NULL)>>
    /\ subscription_table = [i \in DOMAIN Subscriptions |-> Stored(Subscriptions[i])]
    /\ billing_period_table = BillingPeriods
    /\ usage_event_table = <<>>
    /\ \/ catalog = StandardCatalog /\ eval \in ComponentCalls
       \/ catalog \in CommitmentCatalogs /\ eval \in CommitmentCalls
       \/ catalog = StandardCatalog /\ eval \in UsageCalls

CalculateChargeForComponent ==
    /\ eval.op = "calculate_charge_for_component"
    /\ eval' = [op |-> "charge", component |-> eval.component, q1 |-> eval.q1, q2 |-> eval.q2,
                r1 |-> calculate_charge_for_component(eval.component, eval.q1),
                r2 |-> calculate_charge_for_component(eval.component, eval.q2)]
    /\ UNCHANGED <<registry, backend, catalog, now, invoices, balances, transactions,
                   period_invoice, pc, sess, dbLock, last>>

CalculateCommitmentCharges ==
    /\ eval.op = "calculate_commitment_charges"
    /\ eval' = [op |-> "commitment_charges", start_date |-> eval.start_date,
                end_date |-> eval.end_date, usage_by_metric |-> eval.usage_by_metric,
                result |-> calculate_commitment_charges_for_date_range(
                               1, eval.start_date, eval.end_date, eval.usage_by_metric)]
    /\ UNCHANGED <<registry, backend, catalog, now, invoices, balances, transactions,
                   period_invoice, pc, sess, dbLock, last>>

\* the usage of customer 1 over [a, c], over [a, b] and over the range that
\* follows from b
CalculateUsageForDateRange ==
    /\ eval.op = "calculate_usage_for_date_range"
    /\ eval' = [op |-> "usage", a |-> eval.a, b |-> eval.b, c |-> eval.c,
                whole |-> calculate_usage_for_date_range(1, eval.a, eval.c),
                first |-> calculate_usage_for_date_range(1, eval.a, eval.b),
                second |-> calculate_usage_for_date_range(1, eval.b, eval.c)]
    /\ UNCHANGED <<registry, backend, catalog, now, invoices, balances, transactions,
                   period_invoice, pc, sess, dbLock, last>>

NextPricing ==
    \/ CalculateChargeForComponent
    \/ CalculateCommitmentCharges
    \/ CalculateUsageForDateRange

SpecPricing == InitPricing /\ [][NextPricing]_vars

(***************************************************************************)
(* Properties.                                                             *)
(***************************************************************************)
\* the row of table invoices with this id, in the next state
Same(i, j) == j.id = i.id /\ j.invoice_number = i.invoice_number

\* C1: once an invoice is paid, no InvoiceManager operation (void_invoice,
\* update_invoice_status, finalize_invoice, add_invoice_item,
\* remove_invoice_item) changes its status, its items or its amount.
C1_PaidIsFinal ==
    [][\A i \in invoices :
           i.status = "paid" =>
               \E j \in invoices' : /\ Same(i, j)
                                    /\ j.status = i.status
                                    /\ j.items = i.items
                                    /\ j.amount = i.amount]_vars

\* the handlers still working on the invoice with this id
Handling(id) == { p \in Sessions : pc[p] # "idle" /\ sess[p].invoice.id = id }

\* C2: invoice generation is all-or-nothing: a run that fails or is
\* cancelled leaves no invoice behind, and every persisted invoice that was
\* generated for a billing period has its billing-period link (the period's
\* invoice_id names an invoice generated for that period).
C2_AllOrNothing ==
    /\ (last.op = "generate" /\ last.result = "error" /\ Handling(last.id) = {})
           => \A i \in invoices : i.id # last.id
    /\ \A i \in invoices :
           (i.billing_period # NULL /\ Handling(i.id) = {})
               => \E j \in invoices : /\ j.billing_period = i.billing_period
                                      /\ period_invoice[i.billing_period] = j.id

\* the credit an invoice carries: its "Credit applied" items, as a positive sum
RECURSIVE CreditOn(_)
CreditOn(items) ==
    IF items = <<>> THEN 0
    ELSE (IF Head(items).description = "Credit applied" THEN 0 - Head(items).amount ELSE 0)
         + CreditOn(Tail(items))

RECURSIVE TotalCreditApplied(_)
TotalCreditApplied(S) ==
    IF S = {} THEN 0
    ELSE LET i == CHOOSE x \in S : TRUE
         IN  CreditOn(i.items) + TotalCreditApplied(S \ {i})

\* what the customer's balances held when they were granted
RECURSIVE SumGranted(_)
SumGranted(rows) ==
    IF rows = <<>> THEN 0 ELSE Head(rows).amount + SumGranted(Tail(rows))

\* C3: for every interleaving of two concurrent generations for the same
\* customer, the credit applied across the invoices never exceeds what the
\* customer's balances held before either generation started.
C3_NoDoubleApplication ==
    TotalCreditApplied(invoices) <= SumGranted(balances)

\* the charge items of an invoice, without its credit items
ChargeItems(items) == SelectSeq(items, LAMBDA it : it.description # "Credit applied")

\* C4 as stated: before credits are applied invoice.amount is the sum of the
\* line items; afterwards it is max(0, pre_credit_total - credits_applied),
\* which is also the sum of all items, the negative credit items included.
C4_AmountIsItemSum ==
    /\ \A p \in Sessions :
           pc[p] = "credits" => sess[p].invoice.amount = SumAmounts(sess[p].invoice.items)
    /\ \A i \in invoices \cup { sess[p].invoice : p \in { q \in Sessions : pc[q] = "commit" } } :
           /\ i.amount = Max(0, SumAmounts(ChargeItems(i.items)) - CreditOn(i.items))
           /\ i.amount = SumAmounts(i.items)

\* C4 amended: the post-credit amount is the sum of all items whenever the
\* pre-credit total is not negative; the max(0, ...) form holds always.
C4_AmountIsItemSumAmended ==
    /\ \A p \in Sessions :
           pc[p] = "credits" => sess[p].invoice.amount = SumAmounts(sess[p].invoice.items)
    /\ \A i \in invoices \cup { sess[p].invoice : p \in { q \in Sessions : pc[q] = "commit" } } :
           /\ i.amount = Max(0, SumAmounts(ChargeItems(i.items)) - CreditOn(i.items))
           /\ SumAmounts(ChargeItems(i.items)) >= 0 => i.amount = SumAmounts(i.items)

C4_Witness ==
    \E i \in invoices : /\ CreditOn(i.items) > 0
                        /\ SumAmounts(ChargeItems(i.items)) > CreditOn(i.items)
                        /\ Len(ChargeItems(i.items)) >= 2

\* a expires strictly before b, a balance without expiry expiring last
ExpiresEarlier(a, b) ==
    /\ a.expires_at # NULL
    /\ b.expires_at = NULL \/ a.expires_at < b.expires_at

\* the draws of one application, against the rows it read: a balance is
\* drawn only after every eligible balance expiring earlier was drawn empty
InExpiryOrder(draws, rows) ==
    \A m \in DOMAIN draws :
        \A e \in DOMAIN rows :
            (/\ rows[e].status = "active"
             /\ rows[e].remaining_amount > 0
             /\ ExpiresEarlier(rows[e], rows[draws[m].id]))
                => \E k \in 1..(m - 1) : draws[k].id = e /\ draws[k].remaining_amount = 0

\* C5: credits are drawn in ascending expires_at order, balances without
\* expiry last; a balance is drawn only after every balance expiring
\* earlier has been fully consumed.
C5_ExpiryOrder ==
    [][\A p \in Sessions :
           (pc[p] = "credits" /\ pc'[p] = "commit")
               => InExpiryOrder(sess'[p].draws, balances)]_vars

\* C10: no two invoices share an invoice_number, and a number collision
\* never makes generation fail.
C10_NoCollisionFailure ==
    /\ \A i, j \in invoices : i.invoice_number = j.invoice_number => i = j
    /\ ~(last.op = "generate" /\ last.result = "IntegrityError")

RECURSIVE SumDrawn(_)
SumDrawn(ds) == IF ds = <<>> THEN 0 ELSE Head(ds).amount + SumDrawn(Tail(ds))

\* every draw of one application took min(remaining as read, still owed)
TakesMin(ds, rows, owed) ==
    \A k \in DOMAIN ds :
        ds[k].amount = Min(rows[ds[k].id].remaining_amount,
                           owed - SumDrawn(SubSeq(ds, 1, k - 1)))

\* the draws a manual application logged in this step
Logged == [k \in 1..(Len(transactions') - Len(transactions)) |->
              [id |-> transactions'[Len(transactions) + k].credit_balance_id,
               amount |-> 0 - transactions'[Len(transactions) + k].amount]]

C6_Balances ==
    \A b \in DOMAIN balances :
        /\ balances[b].remaining_amount >= 0
        /\ (balances[b].remaining_amount = 0 /\ balances[b].amount > 0)
               => balances[b].status = "consumed"
        /\ balances[b].remaining_amount > 0 => balances[b].status \in {"active", "expired"}

C6_Draws ==
    /\ \A p \in Sessions :
           (pc[p] = "credits" /\ pc'[p] = "commit")
               => TakesMin(sess'[p].draws, balances, sess[p].invoice.amount)
    /\ (/\ Len(transactions') > Len(transactions)
        /\ transactions'[Len(transactions')].description = "Manual")
           => TakesMin(Logged, balances, SumDrawn(Logged))

\* C6: after any sequence of grants, invoice-driven and manual applications
\* and expiration sweeps, every balance has remaining_amount >= 0, each draw
\* takes min(remaining, amount still owed), a balance drawn down to 0 is
\* consumed and a balance left with a positive remainder stays active
\* (until a sweep expires it).
C6_DrawDiscipline == [][C6_Balances' /\ C6_Draws]_vars

RECURSIVE SumApplied(_)
SumApplied(rows) ==
    IF rows = <<>> THEN 0
    ELSE (IF Head(rows).description \in {"Applied to invoice", "Manual"}
          THEN 0 - Head(rows).amount ELSE 0) + SumApplied(Tail(rows))

RECURSIVE SumRemainingAll(_)
SumRemainingAll(rows) ==
    IF rows = <<>> THEN 0 ELSE Head(rows).remaining_amount + SumRemainingAll(Tail(rows))

\* C7: credit conservation: the granted amounts minus the drawn amounts
\* equal the sum of remaining_amount over all balances.
C7_Conservation ==
    SumGranted(balances) - SumApplied(transactions) = SumRemainingAll(balances)

\* the transactions recorded on one balance
RecordedOn(b) == SelectSeq(transactions, LAMBDA t : t.credit_balance_id = b)

\* C8: for every balance, the amounts of the credit transactions recorded
\* on it sum to original amount - remaining_amount.
C8_LedgerMatchesBalance ==
    \A b \in DOMAIN balances :
        SumAmounts(RecordedOn(b)) = balances[b].amount - balances[b].remaining_amount

\* C9: add_credits for an existing customer and amount > 0 succeeds, and
\* leaves exactly one new active balance with remaining_amount = amount and
\* one positive transaction of that amount linked to the new balance.
C9_GrantSucceeds ==
    [][(last'.op = "add_credits" /\ last'.result # "None" /\ last' # last)
          => /\ last'.result = "ok"
             /\ Len(balances') = Len(balances) + 1
             /\ Len(transactions') = Len(transactions) + 1
             /\ LET b == Len(balances')
                    t == transactions'[Len(transactions')]
                IN  /\ balances'[b].status = "active"
                    /\ balances'[b].remaining_amount = balances'[b].amount
                    /\ t.amount = balances'[b].amount
                    /\ t.amount > 0
                    /\ t.credit_balance_id = b]_vars

\* a step of create_subscription that stored a subscription
Created ==
    /\ last'.op = "create_subscription"
    /\ Len(subscription_table') = Len(subscription_table) + 1

NewSubscription == subscription_table'[Len(subscription_table')]

\* the billing periods the step stored
NewPeriods ==
    SubSeq(billing_period_table', Len(billing_period_table) + 1, Len(billing_period_table'))

Contiguous(periods) ==
    \A k \in 1..(Len(periods) - 1) : periods[k + 1].start_date = periods[k].end_date

\* C11: for a subscription with start < end, create_billing_periods ends
\* normally and stores periods with start < end each, the first starting at
\* the subscription's start, each next one starting at the end of the one
\* before, the last ending at the subscription's end.
C11_PeriodsCoverSubscription ==
    [][(Created /\ NewSubscription.end_date # NULL
                /\ NewSubscription.start_date < NewSubscription.end_date)
          => /\ last'.result = "ok"
             /\ NewPeriods # <<>>
             /\ \A k \in DOMAIN NewPeriods : NewPeriods[k].start_date < NewPeriods[k].end_date
             /\ NewPeriods[1].start_date = NewSubscription.start_date
             /\ Contiguous(NewPeriods)
             /\ NewPeriods[Len(NewPeriods)].end_date = NewSubscription.end_date]_vars

\* the day of month the spec gives a stepped end: the start's day, or the
\* last day of the target month when that month is shorter
ClampedDay(start_date, end_date) ==
    Min(Civil(start_date).day, DaysInMonth(Civil(end_date).year, Civil(end_date).month))

\* C12: for a subscription starting on day 29, 30 or 31 of a month, period
\* generation succeeds at every step, and every stepped period end has the
\* start's day of month clamped to the last day of its month.
C12_LateDayIsClamped ==
    [][(Created /\ Civil(NewSubscription.start_date).day >= 29)
          => /\ last'.result = "ok"
             /\ NewPeriods # <<>>
             /\ \A k \in DOMAIN NewPeriods :
                    \/ /\ k = Len(NewPeriods)
                       /\ NewPeriods[k].end_date = NewSubscription.end_date
                    \/ Civil(NewPeriods[k].end_date).day =
                           ClampedDay(NewSubscription.start_date, NewPeriods[k].end_date)]_vars

\* C16: whatever create_subscription and cancel_subscription calls were made,
\* every subscription with an end has start <= end, and every subscription
\* that is not active has an end.
C16_SubscriptionBounds ==
    \A k \in DOMAIN subscription_table :
        LET subscription == subscription_table[k]
        IN  /\ subscription.end_date # NULL => subscription.start_date <= subscription.end_date
            /\ ~subscription.is_active => subscription.end_date # NULL

\* period b starts where another period of the same subscription ends
LaterOfAdjacent(b) ==
    \E a \in DOMAIN billing_period_table :
        /\ a # b
        /\ billing_period_table[a].subscription_id = billing_period_table[b].subscription_id
        /\ billing_period_table[a].end_date = billing_period_table[b].start_date

\* C13: an event whose event_time is the boundary shared by two adjacent
\* billing periods of a subscription is attached to the earlier of the two,
\* never to the later one.
C13_TieGoesToEarlierPeriod ==
    \A k \in DOMAIN usage_event_table :
        LET b == usage_event_table[k].billing_period_id
        IN  (b # NULL /\ LaterOfAdjacent(b))
                => usage_event_table[k].event_time # billing_period_table[b].start_date

\* C14: tracking usage for a customer id that does not exist stores no
\* usage event.
C14_NoEventForMissingCustomer ==
    \A k \in DOMAIN usage_event_table : usage_event_table[k].customer_id \in Customers

\* subscription k of the customer is active, covers t and has a billing
\* period containing t
Eligible(k, customer_id, t) ==
    /\ subscription_table[k].customer_id = customer_id
    /\ subscription_table[k].is_active
    /\ subscription_table[k].start_date <= t
    /\ (subscription_table[k].end_date = NULL \/ subscription_table[k].end_date >= t)
    /\ Containing(k, t) # {}

IsFeeItem(item) ==
    \E c \in DOMAIN catalog.components :
        /\ IsFee(catalog.components[c])
        /\ item.metric_name = catalog.components[c].metric_name

\* C17: an invoice generated for a date range with no subscription given
\* has no line item of a flat or subscription price component.
C17_NoFeeWithoutSubscription ==
    \A p \in Sessions :
        (pc[p] \in {"credits", "commit"} /\ sess[p].subscription_id = NULL)
            => \A k \in DOMAIN sess[p].invoice.items : ~IsFeeItem(sess[p].invoice.items[k])

\* the commitment minimums recorded for the invoice a session assembles
RecordedMinimums(p) ==
    calculate_commitment_charges_for_date_range(
        sess[p].subscription_id, sess[p].start_date, sess[p].end_date,
        calculate_usage_for_date_range(sess[p].customer_id, sess[p].start_date,
                                       sess[p].end_date))

\* the usage components of the plan priced on the metric of that name
PricedOn(metric_name) ==
    {c \in DOMAIN catalog.components :
        /\ ~IsFee(catalog.components[c])
        /\ catalog.components[c].metric_name = metric_name}

LinesOf(items, metric_name) == {k \in DOMAIN items : items[k].metric_name = metric_name}

\* C18: in an invoice for one subscription every recorded commitment minimum
\* is billed once.  When a component of the plan is priced on the committed
\* metric, the metric has the component's line only, carrying the larger of
\* the usage charge and the committed charge; otherwise it has one line
\* with quantity 0, unit price 0 and the committed charge as amount.
C18_MinimumBilledOnce ==
    \A p \in Sessions :
        (pc[p] \in {"credits", "commit"} /\ sess[p].subscription_id # NULL)
            => \A i \in DOMAIN RecordedMinimums(p) :
                   LET metric_name == Metrics[RecordedMinimums(p)[i].key].name
                       committed_charge == RecordedMinimums(p)[i].value
                       items == sess[p].invoice.items
                       lines == LinesOf(items, metric_name)
                       usage == Get(calculate_usage_for_date_range(
                                        sess[p].customer_id, sess[p].start_date,
                                        sess[p].end_date), metric_name, 0)
                   IN  IF PricedOn(metric_name) = {}
                       THEN \E k \in lines :
                               /\ lines = {k}
                               /\ items[k].quantity = 0
                               /\ items[k].unit_n = 0
                               /\ items[k].amount = committed_charge
                       ELSE /\ Cardinality(lines) = Cardinality(PricedOn(metric_name))
                            /\ \E k \in lines, c \in PricedOn(metric_name) :
                                   items[k].amount =
                                       Max(calculate_charge_for_component(
                                               catalog.components[c], usage).charge,
                                           committed_charge)

\* the tier is active in the window of the call
ActiveIn(tier, start_date, end_date) ==
    /\ tier.start_date <= end_date
    /\ (tier.end_date = NULL \/ tier.end_date >= start_date)

\* actual_charge as the spec gives it
ActualCharge(tier, usage) ==
    IF tier.overage_rate = NULL \/ usage <= tier.committed_amount
    THEN usage * tier.rate
    ELSE tier.committed_amount * tier.rate
         + (usage - tier.committed_amount) * tier.overage_rate

C20_PricingMonotone ==
    (eval.op = "charge" /\ eval.q1 <= eval.q2)
        => IF IsFee(eval.component) THEN eval.r1.charge = eval.r2.charge
           ELSE eval.r1.charge <= eval.r2.charge

\* the units of q inside the tier's range [start, end)
UnitsIn(tier, q) ==
    LET upto == IF Get(tier, "end", NULL) = NULL THEN q ELSE Min(q, tier.end)
    IN  Max(0, upto - tier.start)

RECURSIVE MarginalCharge(_, _)
MarginalCharge(tiers, q) ==
    IF tiers = <<>> THEN 0
    ELSE Head(tiers).price * UnitsIn(Head(tiers), q) + MarginalCharge(Tail(tiers), q)

HighestStartTier(tiers, q) ==
    LET reached == {i \in DOMAIN tiers : Get(tiers[i], "start", 0) <= q}
    IN  IF reached = {} THEN tiers[1]
        ELSE tiers[CHOOSE i \in reached :
                       \A j \in reached : Get(tiers[j], "start", 0) <= Get(tiers[i], "start", 0)]

\* C22: volume and graduated pricing use, in whatever order the tiers are
\* stored, the tier with the highest start that is <= q; the charge is q
\* times that tier's price and the unit price is that price.
C22_SingleRateOfHighestTier ==
    (eval.op = "charge" /\ eval.component.pricing_type \in {"volume", "graduated"})
        => LET tier == HighestStartTier(eval.component.pricing_details.tiers, eval.q1)
           IN  /\ ~eval.r1.err
               /\ eval.r1.charge = eval.q1 * tier.price
               /\ eval.r1.unit_n = tier.price * eval.r1.unit_d

\* C23: a price component whose pricing_details lack what its type needs is
\* priced at zero, and invoice generation completes: it never ends with the
\* KeyError of the missing key.
C23_MalformedComponentIsSkipped ==
    last.op = "generate" => last.result # "KeyError"

\* C24: once an invoice is void, no InvoiceManager operation changes its
\* status or its items.
C24_VoidIsTerminal ==
    [][\A i \in invoices :
           i.status = "void" =>
               \E j \in invoices' : /\ Same(i, j)
                                    /\ j.status = "void"
                                    /\ j.items = i.items]_vars

\* an invoice that is not a draft keeps its items and its amount
Frozen ==
    \A i \in invoices :
        (i.status # "draft" /\ last'.op \in {"add_invoice_item", "remove_invoice_item"})
            => \E j \in invoices' : Same(i, j) /\ j.items = i.items /\ j.amount = i.amount

\* C25: whatever InvoiceManager operations an invoice created empty went
\* through, invoice.amount is the sum of the amounts of its items; adding
\* and removing items leaves a non-draft invoice's items and amount alone.
C25_AmountIsRunningTotal ==
    /\ [](\A i \in invoices : i.amount = SumAmounts(i.items))
    /\ [][Frozen]_vars

\* an item was refused on an invoice that is no draft and holds items
C25_Witness ==
    /\ last.op = "add_invoice_item"
    /\ last.result = "None"
    /\ \E i \in invoices : i.id = last.id /\ i.status # "draft" /\ i.items # <<>>

\* a step of apply_credits_manually that applied credits
AppliedManually ==
    /\ Len(transactions') > Len(transactions)
    /\ transactions'[Len(transactions')].description = "Manual"

\* a step of apply_credits_manually that returned False
RefusedManually ==
    /\ last' # last
    /\ last'.op = "apply_credits_manually"
    /\ last'.result = "False"

C27_AggregationSplits ==
    (eval.op = "usage" /\ eval.a <= eval.b /\ eval.b <= eval.c)
        => \A m \in DOMAIN Metrics :
               Get(eval.whole, Metrics[m].name, 0) =
                   Get(eval.first, Metrics[m].name, 0) + Get(eval.second, Metrics[m].name, 0)

\* a balance not past its expires_at now
Unexpired(i) == balances[i].expires_at = NULL \/ balances[i].expires_at > now

\* C28: when invoice generation applies credit, every balance it draws from
\* is unexpired at that time, and the total drawn is at most the balance
\* that get_customer_credit_balance reports.
C28_NoExpiredCreditApplied ==
    [][\A p \in Sessions :
          (pc[p] = "credits" /\ pc'[p] = "commit")
              => /\ \A k \in DOMAIN sess'[p].draws : Unexpired(sess'[p].draws[k].id)
                 /\ sess[p].invoice.amount - sess'[p].invoice.amount
                        <= get_customer_credit_balance(sess[p].customer_id)]_vars

\* the billing period handler p has just started to invoice, or NULL
StartedOn(p) ==
    IF pc[p] = "idle" /\ pc'[p] = "credits" THEN sess'[p].invoice.billing_period ELSE NULL

C29_SubscriptionIsTransactional ==
    [][(last'.op = "create_subscription" /\ last'.result = "ValueError")
           => /\ subscription_table' = subscription_table
              /\ billing_period_table' = billing_period_table]_vars

=============================================================================
